---- MODULE Spec2Model ----
(***************************************************************************)
(* A model of the Pastry-style DHT node of src/pastry_node.py.             *)
(*                                                                         *)
(* A node is identified by its 16-bit node id.  Keys are modelled by their *)
(* 16-bit hash (hash_key is SHA-1 truncated to ID_BITS bits; every claim   *)
(* is about the hash, which is what the routing code and the storage dict  *)
(* use).  A leaf-set or routing-table entry is the tuple <<node_id, addr>> *)
(* for the source's (node_id, ip, port); the listener of a node is reached *)
(* at the address AddrOf(node_id).                                         *)
(***************************************************************************)
EXTENDS Integers, Sequences, FiniteSets, TLC

(***************************************************************************)
(* Configuration, src/utils.py                                             *)
(***************************************************************************)
ID_BITS == 16

ID_SPACE == 2^ID_BITS

ROUTING_TABLE_ROWS == 4

DigitBits == 4

ROUTING_TABLE_COLS == 2^DigitBits

LEAF_SET_SIZE == 4

(***************************************************************************)
(* Bounds of the model.  The ids of the model are IdOf(0..MaxId): groups   *)
(* of three consecutive ids (leaf-set neighbours that differ only in the   *)
(* low bits), the groups HiStep apart so that they differ in the leading   *)
(* bits, which are the bits the routing table indexes.                     *)
(***************************************************************************)
MaxId == 5

MaxNodes == 3

MaxVal == 2

MaxOps == 2

MaxHops == 4

HiStep == 3 * 2^(ID_BITS - 3)

IdOf(i) == ((i \div 3) * HiStep + (i % 3)) % ID_SPACE

Ids == {IdOf(i) : i \in 0..MaxId}

KeyHashes == Ids

Values == 1..MaxVal

None == <<>>

AddrOf(node_id) == node_id

Entry(node_id) == <<node_id, AddrOf(node_id)>>

Min2(a, b) == IF a < b THEN a ELSE b

Abs(x) == IF x < 0 THEN 0 - x ELSE x

(***************************************************************************)
(* bin(x)[2:].zfill(ID_BITS)[i]: bit i of x, most significant first.       *)
(***************************************************************************)
Bit(x, i) == (x \div 2^(ID_BITS - 1 - i)) % 2

(***************************************************************************)
(* The column of the window x_bin[i:i+4], padded on the right with '0'     *)
(* when fewer than 4 bits are left.                                        *)
(***************************************************************************)
Col(x, i) ==
    LET len == Min2(4, ID_BITS - i)
        bits == (x \div 2^(ID_BITS - i - len)) % 2^len
    IN  bits * 2^(4 - len)

Rows == 0..(Min2(ROUTING_TABLE_ROWS, ID_BITS) - 1)

RECURSIVE FirstDiff(_, _, _)
(* The first i in range(min(ROWS, ID_BITS)), from i on, where the bits of  *)
(* a and b differ; -1 when there is none.                                  *)
FirstDiff(a, b, i) ==
    IF i \notin Rows THEN -1
    ELSE IF Bit(a, i) # Bit(b, i) THEN i
    ELSE FirstDiff(a, b, i + 1)

(***************************************************************************)
(* list.sort(key=id) on a list whose last element was just appended: a     *)
(* stable sort, so the new element goes behind the elements that do not    *)
(* sort after it; desc is the sort's reverse=True.                         *)
(***************************************************************************)
RECURSIVE StableInsert(_, _, _)
StableInsert(s, e, desc) ==
    IF s = <<>> THEN <<e>>
    ELSE LET last == s[Len(s)]
             after == IF desc THEN e[1] > last[1] ELSE e[1] < last[1]
         IN  IF after
             THEN Append(StableInsert(SubSeq(s, 1, Len(s) - 1), e, desc), last)
             ELSE Append(s, e)

RECURSIVE SortById(_, _)
SortById(s, desc) ==
    IF s = <<>> THEN <<>>
    ELSE StableInsert(SortById(SubSeq(s, 1, Len(s) - 1), desc), s[Len(s)], desc)

(* Mutant of Truncate: the slice keeps the tail, [-LEAF_SET_SIZE:].        *)
TruncateTail(s) ==
    IF Len(s) > LEAF_SET_SIZE THEN SubSeq(s, Len(s) - LEAF_SET_SIZE + 1, Len(s)) ELSE s

Truncate(s) ==
    IF Len(s) > LEAF_SET_SIZE THEN SubSeq(s, 1, LEAF_SET_SIZE) ELSE s

LeafInsert(s, e, desc) == Truncate(SortById(Append(s, e), desc))

EmptyTable == [i \in 0..(ROUTING_TABLE_ROWS - 1) |-> [c \in 0..(ROUTING_TABLE_COLS - 1) |-> None]]

(***************************************************************************)
(* The routing-table part of update_routing_tables: the row is the first   *)
(* differing bit, the column the 4-bit window starting there.              *)
(***************************************************************************)
TableInsert(self, table, e) ==
    LET i == FirstDiff(e[1], self, 0)
    IN  IF i = -1 THEN table
        ELSE LET col == Col(e[1], i)
             IN  IF col < ROUTING_TABLE_COLS
                 THEN [table EXCEPT ![i][col] = e]
                 ELSE table

(***************************************************************************)
(* The routing state of one node: rs.smaller, rs.larger, rs.table.         *)
(* update_routing_tables(node_id, ip, port) on the node with id self.      *)
(***************************************************************************)
update_routing_tables(self, rs, e) ==
    IF e[1] = self THEN rs
    ELSE [smaller |-> IF e[1] < self THEN LeafInsert(rs.smaller, e, TRUE) ELSE rs.smaller,
          larger  |-> IF e[1] < self THEN rs.larger ELSE LeafInsert(rs.larger, e, FALSE),
          table   |-> TableInsert(self, rs.table, e)]

(***************************************************************************)
(* max / min of the ids of a non-empty list of entries.                    *)
(***************************************************************************)
LargestId(s) == CHOOSE x \in {s[j][1] : j \in 1..Len(s)} : \A y \in {s[j][1] : j \in 1..Len(s)} : y <= x

SmallestId(s) == CHOOSE x \in {s[j][1] : j \in 1..Len(s)} : \A y \in {s[j][1] : j \in 1..Len(s)} : x <= y

is_responsible_for_key(self, rs, key_hash) ==
    IF rs.smaller = <<>> /\ rs.larger = <<>> THEN TRUE
    ELSE IF rs.smaller # <<>> /\ key_hash > rs.smaller[1][1] /\ key_hash <= self THEN TRUE
    ELSE IF rs.larger # <<>> /\ key_hash > self /\ key_hash <= rs.larger[1][1] THEN TRUE
    ELSE IF rs.smaller # <<>> /\ rs.larger # <<>>
         THEN LET largest_node == LargestId(rs.larger)
                  smallest_node == SmallestId(rs.smaller)
              IN  IF self > largest_node /\ key_hash > self THEN TRUE
                  ELSE IF self < smallest_node /\ key_hash < self THEN TRUE
                  ELSE FALSE
    ELSE FALSE

(***************************************************************************)
(* route_to_node, step 1: the first entry of leaf_set_smaller with         *)
(* key_hash <= id, else the first entry of leaf_set_larger with            *)
(* key_hash >= id, else None.                                              *)
(***************************************************************************)
RECURSIVE FirstWith(_, _, _, _)
FirstWith(s, key_hash, below, j) ==
    IF j > Len(s) THEN None
    ELSE IF (IF below THEN key_hash <= s[j][1] ELSE key_hash >= s[j][1]) THEN s[j]
    ELSE FirstWith(s, key_hash, below, j + 1)

LeafRoute(rs, key_hash) ==
    LET lo == FirstWith(rs.smaller, key_hash, TRUE, 1)
    IN  IF lo # None THEN lo ELSE FirstWith(rs.larger, key_hash, FALSE, 1)

(***************************************************************************)
(* route_to_node, step 2: for every row i whose bit differs between the    *)
(* key and the local id (the loop has no break), the cell of the key's     *)
(* column if occupied, else the first occupied cell of the row.            *)
(***************************************************************************)
RECURSIVE FirstInRow(_, _)
FirstInRow(row, j) ==
    IF j >= ROUTING_TABLE_COLS THEN None
    ELSE IF row[j] # None THEN row[j]
    ELSE FirstInRow(row, j + 1)

RECURSIVE TableRoute(_, _, _, _)
TableRoute(self, table, key_hash, i) ==
    IF i \notin Rows THEN None
    ELSE IF Bit(key_hash, i) # Bit(self, i)
         THEN LET col == Col(key_hash, i)
              IN  IF col < ROUTING_TABLE_COLS /\ table[i][col] # None THEN table[i][col]
                  ELSE LET any == FirstInRow(table[i], 0)
                       IN  IF any # None THEN any
                           ELSE TableRoute(self, table, key_hash, i + 1)
    ELSE TableRoute(self, table, key_hash, i + 1)

(***************************************************************************)
(* route_to_node, step 3: the entry of leaf_set_smaller + leaf_set_larger  *)
(* nearest to the key on the integer line, the first one on a tie.         *)
(***************************************************************************)
RECURSIVE Closest(_, _, _, _, _)
Closest(s, key_hash, j, closest_node, closest_distance) ==
    IF j > Len(s) THEN closest_node
    ELSE LET distance == Abs(s[j][1] - key_hash)
         IN  IF distance < closest_distance
             THEN Closest(s, key_hash, j + 1, s[j], distance)
             ELSE Closest(s, key_hash, j + 1, closest_node, closest_distance)

route_to_node(self, rs, key_hash) ==
    LET leaf == LeafRoute(rs, key_hash)
    IN  IF leaf # None THEN leaf
        ELSE LET cell == TableRoute(self, rs.table, key_hash, 0)
             IN  IF cell # None THEN cell
                 ELSE Closest(rs.smaller \o rs.larger, key_hash, 1, None, ID_SPACE)

(***************************************************************************)
(* handle_routing_info: every entry of the snapshot's leaf sets, then      *)
(* every non-empty cell of its routing table row by row, is passed to      *)
(* update_routing_tables unless its id is the local id.  The snapshot's    *)
(* own node_id is read and not used.                                       *)
(***************************************************************************)
TableCells(table, k) ==
    SelectSeq([j \in 1..(ROUTING_TABLE_ROWS * ROUTING_TABLE_COLS - k) |->
                  table[(k + j - 1) \div ROUTING_TABLE_COLS][(k + j - 1) % ROUTING_TABLE_COLS]],
              LAMBDA cell : cell # None)

InfoEntries(info) ==
    info.leaf_set_smaller \o info.leaf_set_larger \o TableCells(info.routing_table, 0)

RECURSIVE MergeEntries(_, _, _)
MergeEntries(self, rs, es) ==
    IF es = <<>> THEN rs
    ELSE MergeEntries(self,
                      IF es[1][1] # self THEN update_routing_tables(self, rs, es[1]) ELSE rs,
                      Tail(es))

handle_routing_info(self, rs, info) == MergeEntries(self, rs, InfoEntries(info))

EmptyState == [smaller |-> <<>>, larger |-> <<>>, table |-> EmptyTable]

Snapshot(self, rs) ==
    [node_id |-> self, leaf_set_smaller |-> rs.smaller,
     leaf_set_larger |-> rs.larger, routing_table |-> rs.table]

(***************************************************************************)
(* Responses, and the record of an API call.                               *)
(***************************************************************************)
(* value is <<v>> when the response carries a 'value', else <<>>.           *)
Response(status, message, value) == [status |-> status, message |-> message, value |-> value]

NoResponse == Response("none", "", <<>>)

NoCall == [op |-> "none", state |-> "idle", key |-> 0, value |-> 0, path |-> <<>>, resp |-> NoResponse]

(***************************************************************************)
(* Requests on the wire.  fields is the set of keys the JSON object has    *)
(* besides 'type'; entry, key, value and routing_info are their values.    *)
(***************************************************************************)
Message(type, fields, entry, info) ==
    [type |-> type, fields |-> fields, entry |-> entry, routing_info |-> info]

NoMessage == Message("none", {}, Entry(0), Snapshot(0, EmptyState))

(***************************************************************************)
(* One connection.  from, to and msg are the arguments of send_message;    *)
(* spc is its position, client_socket the socket it opened, result what it *)
(* returned and fault the failure it met; wpc is the position of the       *)
(* _handle_client thread started for the connection, accepted its socket   *)
(* and wfault the failure it met; request and reply are the frames written *)
(* in each direction.                                                      *)
(***************************************************************************)
NoConn ==
    [from |-> 0, to |-> 0, msg |-> NoMessage, spc |-> "idle", client_socket |-> "none",
     result |-> NoResponse, fault |-> "none",
     wpc |-> "idle", accepted |-> "none", wfault |-> "none",
     request |-> <<>>, reply |-> <<>>]

(* No worker thread has been started.                                      *)
NoWorkers == <<>>

(* No sort of a leaf set is running.                                       *)
Unsorted == [side \in {"smaller", "larger"} |-> TRUE]

(***************************************************************************)
(* The state.  Every per-node variable is a function of the node id.       *)
(*   running            self.running (line 33): the node has been           *)
(*                      constructed and listens                             *)
(*   bootstrap_node     the constructor's argument (line 11): <<address>>   *)
(*                      the node was constructed with, or <<>>              *)
(*   storage            self.storage (line 17): key hash -> value           *)
(*   leaf_set_smaller, leaf_set_larger, routing_table  (lines 20-22)        *)
(*   net                JOIN requests and their replies between             *)
(*                      send_message (line 234) and _handle_client          *)
(*   call               the store / lookup request being served: the chain  *)
(*                      of nodes it went through (the last one holds it     *)
(*                      while state = "sent") and the response returned to  *)
(*                      the caller of the API                               *)
(*   prev               the request completed before call                   *)
(*   nops               number of API calls issued                          *)
(*   inserted           the ids update_routing_tables (line 88) was called  *)
(*                      with on the node                                    *)
(*   server_socket      self.server_socket (lines 25-28): "none" before the *)
(*                      constructor ran, "open" once bound and listening,   *)
(*                      "closed" after close()                              *)
(*   server_thread      the position of _listen_for_connections (line 49):  *)
(*                      "accept" while it waits in accept() (line 53),      *)
(*                      "exited" once its loop has ended                    *)
(*   escaped            the exceptions that left a method of the node       *)
(*                      uncaught, as <<node, method, exception>>            *)
(*   conn               one connection, from send_message on one node to    *)
(*                      _handle_client on another                           *)
(*   workers            the worker threads that run handle_join on one node *)
(*                      at the same time: their positions and locals        *)
(*   base               the routing state of that node when the workers     *)
(*                      started                                             *)
(*   modified           for each leaf set of that node: the list object has *)
(*                      been changed since it was created or since a sort   *)
(*                      of it began (list.sort empties the list while it    *)
(*                      runs and raises ValueError if it finds it changed)  *)
(***************************************************************************)
VARIABLES running, bootstrap_node, storage, leaf_set_smaller, leaf_set_larger,
          routing_table, net, call, prev, nops, inserted,
          server_socket, server_thread, escaped, conn, workers, base, modified

vars == <<running, bootstrap_node, storage, leaf_set_smaller, leaf_set_larger,
          routing_table, net, call, prev, nops, inserted,
          server_socket, server_thread, escaped, conn, workers, base, modified>>

nodes == <<running, bootstrap_node, server_socket, escaped>>

threads == <<conn, workers, base, modified>>

routing == <<leaf_set_smaller, leaf_set_larger, routing_table, inserted>>

RS(n) == [smaller |-> leaf_set_smaller[n], larger |-> leaf_set_larger[n], table |-> routing_table[n]]

Live == {n \in Ids : running[n]}

(* A connection to node n is accepted (line 53) and a worker thread is     *)
(* started for it (lines 54-59); the loop then ends if running is false    *)
(* (line 51).  A thread that waits in accept() when shutdown closes the    *)
(* socket still accepts the next connection.                               *)
Accept(n) ==
    /\ server_thread[n] = "accept"
    /\ server_thread' = [server_thread EXCEPT ![n] = IF running[n] THEN "accept" ELSE "exited"]

(* The routing state of node n becomes rs; ids were passed to              *)
(* update_routing_tables on the way.                                       *)
SetRS(n, rs, ids) ==
    /\ leaf_set_smaller' = [leaf_set_smaller EXCEPT ![n] = rs.smaller]
    /\ leaf_set_larger' = [leaf_set_larger EXCEPT ![n] = rs.larger]
    /\ routing_table' = [routing_table EXCEPT ![n] = rs.table]
    /\ inserted' = [inserted EXCEPT ![n] = @ \cup (ids \ {n})]

(***************************************************************************)
(* PastryNode.__init__ without a bootstrap node: empty storage, empty leaf *)
(* sets, a table of None, listening.                                       *)
(***************************************************************************)
Fresh(live) ==
    /\ running = [n \in Ids |-> n \in live]
    /\ bootstrap_node = [n \in Ids |-> <<>>]
    /\ storage = [n \in Ids |-> <<>>]
    /\ leaf_set_smaller = [n \in Ids |-> <<>>]
    /\ leaf_set_larger = [n \in Ids |-> <<>>]
    /\ routing_table = [n \in Ids |-> EmptyTable]
    /\ net = {}
    /\ call = NoCall
    /\ prev = NoCall
    /\ nops = 0
    /\ inserted = [n \in Ids |-> {}]
    /\ server_socket = [n \in Ids |-> IF n \in live THEN "open" ELSE "none"]
    /\ server_thread = [n \in Ids |-> IF n \in live THEN "accept" ELSE "none"]
    /\ escaped = {}
    /\ conn = NoConn
    /\ workers = NoWorkers
    /\ base = EmptyState
    /\ modified = Unsorted

Init == \E n \in Ids : Fresh({n})

(***************************************************************************)
(* handle_join on node n for a JOIN that names the entry e: the new node   *)
(* is inserted and the snapshot taken after the insertion is the reply.    *)
(***************************************************************************)
handle_join(n, e) ==
    /\ SetRS(n, update_routing_tables(n, RS(n), e), {e[1]})
    /\ UNCHANGED <<nodes, storage, call, prev, nops, threads>>

JoinReply(n, e) ==
    [type |-> "JOIN_OK", to |-> e[2],
     routing_info |-> Snapshot(n, update_routing_tables(n, RS(n), e))]

(* A JOIN arriving from a peer outside the modelled nodes (its reply       *)
(* leaves the model).                                                      *)
ReceiveJoin(n, p) ==
    /\ Accept(n)
    /\ handle_join(n, Entry(p))
    /\ UNCHANGED net

(***************************************************************************)
(* The dict write self.storage[key_hash] = value.                          *)
(***************************************************************************)
(* Mutant of Put: the value is filed under the neighbouring hash.          *)
PutElsewhere(dict, key_hash, value) ==
    [k \in (DOMAIN dict) \cup {(key_hash + 1) % ID_SPACE} |->
        IF k = (key_hash + 1) % ID_SPACE THEN value ELSE dict[k]]

Put(dict, key_hash, value) ==
    [k \in (DOMAIN dict) \cup {key_hash} |-> IF k = key_hash THEN value ELSE dict[k]]

Has(dict, key_hash) == key_hash \in DOMAIN dict

(* The node that listens at an address.                                    *)
Listener(addr) == CHOOSE n \in Ids : AddrOf(n) = addr

(* A new API call may start: the previous one has returned, and no join is *)
(* in flight (the calls are made on a quiescent ring).                     *)
CanCall == call.state # "sent" /\ nops < MaxOps /\ net = {}

Begin(op, n, key_hash, value) ==
    [op |-> op, state |-> "sent", key |-> key_hash, value |-> value, path |-> <<n>>, resp |-> NoResponse]

Done(c, resp) == [c EXCEPT !.state = "done", !.resp = resp]

Forward(c, next_node) == [c EXCEPT !.state = "sent", !.path = Append(@, Listener(next_node[2]))]

(***************************************************************************)
(* The body shared by store (c is the call just begun at n) and            *)
(* handle_store (c is the call whose STORE message n received): store      *)
(* locally if responsible, else forward to route_to_node's choice, else    *)
(* store locally as a fallback.                                            *)
(***************************************************************************)
StoreAt(n, c) ==
    IF is_responsible_for_key(n, RS(n), c.key)
    THEN /\ storage' = [storage EXCEPT ![n] = Put(@, c.key, c.value)]
         /\ call' = Done(c, Response("success", "Key stored successfully", <<>>))
    ELSE LET next_node == route_to_node(n, RS(n), c.key)
         IN  IF next_node # None
             THEN /\ Len(c.path) < MaxHops
                  /\ call' = Forward(c, next_node)
                  /\ UNCHANGED storage
             ELSE /\ storage' = [storage EXCEPT ![n] = Put(@, c.key, c.value)]
                  /\ call' = Done(c, Response("success", "Key stored locally (fallback)", <<>>))

(***************************************************************************)
(* The body shared by lookup and handle_lookup.                            *)
(***************************************************************************)
LookupAt(n, c) ==
    /\ UNCHANGED storage
    /\ IF Has(storage[n], c.key)
       THEN call' = Done(c, Response("success", "", <<storage[n][c.key]>>))
       ELSE IF is_responsible_for_key(n, RS(n), c.key)
       THEN call' = Done(c, Response("error", "Key not found", <<>>))
       ELSE LET next_node == route_to_node(n, RS(n), c.key)
            IN  IF next_node # None
                THEN /\ Len(c.path) < MaxHops
                     /\ call' = Forward(c, next_node)
                ELSE call' = Done(c, Response("error", "No route to key", <<>>))

(* PastryNode.store(key, value) called on node n.                          *)
store(n, key_hash, value) ==
    /\ running[n]
    /\ CanCall
    /\ StoreAt(n, Begin("store", n, key_hash, value))
    /\ prev' = call
    /\ nops' = nops + 1
    /\ UNCHANGED <<nodes, routing, net, server_thread, threads>>

(* PastryNode.lookup(key) called on node n.                                *)
lookup(n, key_hash) ==
    /\ running[n]
    /\ CanCall
    /\ LookupAt(n, Begin("lookup", n, key_hash, 0))
    /\ prev' = call
    /\ nops' = nops + 1
    /\ UNCHANGED <<nodes, routing, net, server_thread, threads>>

(* The holder of the request in flight: the last node of the chain.        *)
Holder == call.path[Len(call.path)]

(* A forwarded STORE is received by node n; the response it returns goes   *)
(* back unchanged through every send_message of the chain.                 *)
handle_store(n) ==
    /\ call.state = "sent" /\ call.op = "store" /\ Len(call.path) > 1
    /\ n = Holder /\ Accept(n)
    /\ StoreAt(n, call)
    /\ UNCHANGED <<nodes, routing, net, prev, nops, threads>>

(* A forwarded LOOKUP is received by node n.                               *)
handle_lookup(n) ==
    /\ call.state = "sent" /\ call.op = "lookup" /\ Len(call.path) > 1
    /\ n = Holder /\ Accept(n)
    /\ LookupAt(n, call)
    /\ UNCHANGED <<nodes, routing, net, prev, nops, threads>>

(***************************************************************************)
(* The join protocol.  PastryNode(ip, port, bootstrap) starts node n and   *)
(* sends a JOIN to the bootstrap node b: the one node constructed without  *)
(* a bootstrap.  join_network blocks in send_message until the reply.      *)
(***************************************************************************)
Bootstrap == {b \in Live : bootstrap_node[b] = <<>>}

StartNode(n, b) ==
    /\ ~running[n]
    /\ b \in Bootstrap
    /\ Cardinality(Live) < MaxNodes
    /\ nops = 0
    /\ running' = [running EXCEPT ![n] = TRUE]
    /\ bootstrap_node' = [bootstrap_node EXCEPT ![n] = <<AddrOf(b)>>]
    /\ server_socket' = [server_socket EXCEPT ![n] = "open"]
    /\ server_thread' = [server_thread EXCEPT ![n] = "accept"]
    /\ net' = net \cup {[type |-> "JOIN", to |-> AddrOf(b), entry |-> Entry(n)]}
    /\ UNCHANGED <<storage, routing, call, prev, nops, escaped, threads>>

(* The JOIN is dispatched to handle_join on its receiver.                  *)
DeliverJoin(n) ==
    \E m \in net :
        /\ m.type = "JOIN" /\ Listener(m.to) = n /\ Accept(n)
        /\ handle_join(n, m.entry)
        /\ net' = (net \ {m}) \cup {JoinReply(n, m.entry)}

(* join_network on n receives the reply and merges its routing_info.       *)
JoinReturn(n) ==
    \E m \in net :
        /\ m.type = "JOIN_OK" /\ Listener(m.to) = n
        /\ LET es == InfoEntries(m.routing_info)
           IN  SetRS(n, handle_routing_info(n, RS(n), m.routing_info),
                     {es[j][1] : j \in 1..Len(es)})
        /\ net' = net \ {m}
        /\ UNCHANGED <<nodes, storage, call, prev, nops, server_thread, threads>>

JoinInit == \E b \in Ids : Fresh({b})

JoinNext ==
    \/ \E n \in Ids, b \in Ids : StartNode(n, b)
    \/ \E n \in Ids : DeliverJoin(n)
    \/ \E n \in Ids : JoinReturn(n)
    \/ \E n \in Ids, k \in KeyHashes, v \in Values : store(n, k, v)
    \/ \E n \in Ids, k \in KeyHashes : lookup(n, k)
    \/ \E n \in Ids : handle_store(n)
    \/ \E n \in Ids : handle_lookup(n)

JoinSpec == JoinInit /\ [][JoinNext]_vars

(***************************************************************************)
(* A converged ring: the nodes of ring are running and every node has      *)
(* been told of every other node once (in the order ord), nothing is in    *)
(* flight.                                                                 *)
(***************************************************************************)
Orders(ring) ==
    {f \in [1..Cardinality(ring) -> ring] : \A i, j \in 1..Cardinality(ring) : f[i] = f[j] => i = j}

ToldAll(n, ord) == MergeEntries(n, EmptyState, [j \in 1..Len(ord) |-> Entry(ord[j])])

ConvInit ==
    \E ring \in SUBSET Ids :
        /\ ring # {} /\ Cardinality(ring) <= MaxNodes
        /\ \E ord \in Orders(ring) :
            /\ running = [n \in Ids |-> n \in ring]
            /\ bootstrap_node = [n \in Ids |-> <<>>]
            /\ storage = [n \in Ids |-> <<>>]
            /\ leaf_set_smaller = [n \in Ids |-> IF n \in ring THEN ToldAll(n, ord).smaller ELSE <<>>]
            /\ leaf_set_larger = [n \in Ids |-> IF n \in ring THEN ToldAll(n, ord).larger ELSE <<>>]
            /\ routing_table = [n \in Ids |-> IF n \in ring THEN ToldAll(n, ord).table ELSE EmptyTable]
            /\ net = {}
            /\ call = NoCall
            /\ prev = NoCall
            /\ nops = 0
            /\ inserted = [n \in Ids |-> IF n \in ring THEN ring \ {n} ELSE {}]
            /\ server_socket = [n \in Ids |-> IF n \in ring THEN "open" ELSE "none"]
            /\ server_thread = [n \in Ids |-> IF n \in ring THEN "accept" ELSE "none"]
            /\ escaped = {}
            /\ conn = NoConn
            /\ workers = NoWorkers
            /\ base = EmptyState
            /\ modified = Unsorted

ConvNext ==
    \/ \E n \in Ids, k \in KeyHashes, v \in Values : store(n, k, v)
    \/ \E n \in Ids, k \in KeyHashes : lookup(n, k)
    \/ \E n \in Ids : handle_store(n)
    \/ \E n \in Ids : handle_lookup(n)

ConvSpec == ConvInit /\ [][ConvNext]_vars

(***************************************************************************)
(* socket.close(): the socket is closed afterwards, and closing a closed   *)
(* socket raises nothing.  exc names the exception raised, "" for none.    *)
(***************************************************************************)
(* Mutant of close: closing a closed socket raises.                        *)
closeOnce(sock) == [state |-> "closed", exc |-> IF sock = "closed" THEN "OSError" ELSE ""]

close(sock) == [state |-> "closed", exc |-> ""]

(* The exception exc, if any, leaves method of node n uncaught.            *)
Raise(n, method, exc) == IF exc = "" THEN escaped ELSE escaped \cup {<<n, method, exc>>}

(***************************************************************************)
(* PastryNode.shutdown() on a constructed node: the flag is cleared and    *)
(* the listening socket closed.  The server thread is left where it is.    *)
(***************************************************************************)
shutdown(n) ==
    /\ server_socket[n] # "none"
    /\ running' = [running EXCEPT ![n] = FALSE]
    /\ LET closed == close(server_socket[n])
       IN  /\ server_socket' = [server_socket EXCEPT ![n] = closed.state]
           /\ escaped' = Raise(n, "shutdown", closed.exc)
    /\ UNCHANGED <<bootstrap_node, storage, routing, net, call, prev, nops, server_thread, threads>>

(***************************************************************************)
(* The forwarded request cannot be delivered: nobody accepts at the        *)
(* address of node n, connect() raises inside send_message (line 196),     *)
(* which returns an error response (lines 219-221); every node of the      *)
(* chain returns it unchanged.                                             *)
(***************************************************************************)
ConnectionRefused(n) ==
    /\ call.state = "sent" /\ Len(call.path) > 1
    /\ n = Holder /\ server_thread[n] # "accept"
    /\ call' = Done(call, Response("error", "[Errno 111] Connection refused", <<>>))
    /\ UNCHANGED <<nodes, storage, routing, net, prev, nops, server_thread, threads>>

(***************************************************************************)
(* A converged ring some nodes of which shut down before the store calls   *)
(* made on it.                                                             *)
(***************************************************************************)
NodeFails(n) == nops = 0 /\ shutdown(n)

FailNext ==
    \/ \E n \in Ids : NodeFails(n)
    \/ \E n \in Ids, k \in KeyHashes, v \in Values : store(n, k, v)
    \/ \E n \in Ids : handle_store(n)
    \/ \E n \in Ids : ConnectionRefused(n)

FailSpec == ConvInit /\ [][FailNext]_vars

(***************************************************************************)
(* A single node started without a bootstrap and never joined by anyone:   *)
(* the API calls made on it.                                               *)
(***************************************************************************)
SoloInit == \E n \in Ids : Fresh({n})

SoloNext ==
    \/ \E n \in Ids, k \in KeyHashes, v \in Values : store(n, k, v)
    \/ \E n \in Ids, k \in KeyHashes : lookup(n, k)

SoloSpec == SoloInit /\ [][SoloNext]_vars

(***************************************************************************)
(* A single node, the API calls made on it and its shutdown, which may be  *)
(* called again.                                                           *)
(***************************************************************************)
StopNext ==
    \/ \E n \in Ids, k \in KeyHashes, v \in Values : store(n, k, v)
    \/ \E n \in Ids, k \in KeyHashes : lookup(n, k)
    \/ \E n \in Ids : shutdown(n)

StopSpec == SoloInit /\ [][StopNext]_vars

(***************************************************************************)
(* The routing state of one running node under the JOINs it receives.      *)
(***************************************************************************)
Next == \E n \in Ids, p \in Ids : ReceiveJoin(n, p)

Spec == Init /\ [][Next]_vars

(***************************************************************************)
(* The routing state of one running node under the JOIN and ROUTING_INFO   *)
(* messages it receives.  A ROUTING_INFO message carries the snapshot of a *)
(* peer m that was told of the node p before.                              *)
(***************************************************************************)
PeerSnapshot(m, p) == Snapshot(m, ToldAll(m, <<p>>))

(* process_message dispatches a ROUTING_INFO message to                    *)
(* handle_routing_info on node n (the reply {'status': 'success'} leaves   *)
(* the model).                                                             *)
ReceiveRoutingInfo(n, info) ==
    /\ Accept(n)
    /\ LET es == InfoEntries(info)
       IN  SetRS(n, handle_routing_info(n, RS(n), info), {es[j][1] : j \in 1..Len(es)})
    /\ UNCHANGED <<nodes, storage, call, prev, nops, net, threads>>

MergeNext ==
    \/ \E n \in Ids, p \in Ids : ReceiveJoin(n, p)
    \/ \E n \in Ids, m \in Ids, p \in Ids :
          \E info \in {PeerSnapshot(m, p)} : ReceiveRoutingInfo(n, info)

MergeSpec == Init /\ [][MergeNext]_vars

(***************************************************************************)
(* Frames.  json.dumps(obj).encode('utf-8') + b'\n' is a frame that        *)
(* json.loads decodes to obj; a frame cut short by the connection is not   *)
(* decodable.                                                              *)
(***************************************************************************)
Encode(obj) == [json |-> TRUE, body |-> obj]

Cut(frame) == [frame EXCEPT !.json = FALSE]

(***************************************************************************)
(* The except clause of send_message (line 219): 'except Exception'        *)
(* catches every exception the body raises.                                *)
(***************************************************************************)
(* Mutant of Catches: only the socket errors are caught.                   *)
CatchesOSError(exc) ==
    exc \in {"ConnectionRefusedError", "BrokenPipeError", "ConnectionResetError"}

Catches(exc) == TRUE

(***************************************************************************)
(* send_message leaves its try block with the exception exc (lines         *)
(* 219-221): the error response is returned if the clause catches exc,     *)
(* else exc leaves send_message.  The socket is not closed on this path:   *)
(* sock is what the runtime makes of the unreferenced socket, still open   *)
(* or closed by its finalizer.                                             *)
(***************************************************************************)
Except(exc, fault, sock) ==
    IF Catches(exc)
    THEN /\ conn' = [conn EXCEPT !.spc = "returned", !.fault = fault, !.client_socket = sock,
                                 !.result = Response("error", exc, <<>>)]
         /\ UNCHANGED escaped
    ELSE /\ conn' = [conn EXCEPT !.spc = "raised", !.fault = fault, !.client_socket = sock]
         /\ escaped' = Raise(conn.from, "send_message", exc)

Finalized(sock) == IF sock = "open" THEN {"open", "closed"} ELSE {sock}

(***************************************************************************)
(* send_message(ip, port, message) called on node a for the address of     *)
(* node b (lines 194-196): the socket is created and connected.  If b      *)
(* accepts, a worker thread of b is started for the connection; else       *)
(* connect raises.                                                         *)
(***************************************************************************)
send_message(a, b, message) ==
    /\ conn.spc = "idle"
    /\ server_socket[a] # "none" /\ a # b
    /\ IF server_thread[b] = "accept"
       THEN /\ Accept(b)
            /\ conn' = [conn EXCEPT !.from = a, !.to = b, !.msg = message, !.spc = "sendall",
                                    !.client_socket = "open", !.wpc = "recv", !.accepted = "open"]
            /\ UNCHANGED escaped
       ELSE /\ conn' = [conn EXCEPT !.from = a, !.to = b, !.msg = message, !.spc = "except",
                                    !.client_socket = "open", !.fault = "connect"]
            /\ UNCHANGED <<escaped, server_thread>>
    /\ UNCHANGED <<running, bootstrap_node, server_socket, storage, routing, net, call, prev,
                   nops, workers, base, modified>>

(* connect has raised: the except clause.                                  *)
ConnectFailed ==
    /\ conn.spc = "except"
    /\ \E sock \in Finalized(conn.client_socket) :
          Except("ConnectionRefusedError", "connect", sock)
    /\ UNCHANGED <<running, bootstrap_node, server_socket, storage, routing, net, call, prev,
                   nops, server_thread, workers, base, modified>>

(* sendall (line 199): the request frame is written, or the connection is  *)
(* broken and sendall raises.                                              *)
sendall ==
    /\ conn.spc = "sendall"
    /\ \/ /\ conn' = [conn EXCEPT !.spc = "recv", !.request = <<Encode(conn.msg)>>]
          /\ UNCHANGED escaped
       \/ \E sock \in Finalized(conn.client_socket) :
             Except("BrokenPipeError", "write", sock)
    /\ UNCHANGED <<running, bootstrap_node, server_socket, storage, routing, net, call, prev,
                   nops, server_thread, workers, base, modified>>

(***************************************************************************)
(* The receive loop and the rest of send_message (lines 201-218), once the *)
(* peer has replied or closed: recv raises on a broken connection; else    *)
(* the socket is closed (line 213) and the data, the reply frame whole or  *)
(* cut short, is decoded and returned, 'No response received' if empty.    *)
(***************************************************************************)
recv ==
    /\ conn.spc = "recv"
    /\ conn.reply # <<>> \/ conn.accepted = "closed"
    /\ \/ \E sock \in Finalized(conn.client_socket) :
             Except("ConnectionResetError", "read", sock)
       \/ /\ conn.reply = <<>>
          /\ conn' = [conn EXCEPT !.spc = "returned", !.client_socket = close(@).state,
                                  !.fault = "closed",
                                  !.result = Response("error", "No response received", <<>>)]
          /\ UNCHANGED escaped
       \/ /\ conn.reply # <<>>
          /\ \E data \in {conn.reply[1], Cut(conn.reply[1])} :
                IF data.json
                THEN /\ conn' = [conn EXCEPT !.spc = "returned", !.client_socket = close(@).state,
                                             !.result = data.body]
                     /\ UNCHANGED escaped
                ELSE Except("JSONDecodeError", "decode", close(conn.client_socket).state)
    /\ UNCHANGED <<running, bootstrap_node, server_socket, storage, routing, net, call, prev,
                   nops, server_thread, workers, base, modified>>

(***************************************************************************)
(* process_message on node n for the decoded message: the handler of its   *)
(* type.  handle_join, handle_store and handle_lookup index the message by *)
(* the keys they need (lines 302-304, 322-323, 349) and raise KeyError for *)
(* a missing one; handle_routing_info uses get.  The result is the routing *)
(* state afterwards, the ids inserted, the response and the exception      *)
(* raised ("" for none).  A STORE or LOOKUP that has its keys is served by *)
(* handle_store and handle_lookup above.                                   *)
(***************************************************************************)
Required(type) ==
    CASE type = "JOIN" -> {"node_id", "ip", "port"}
      [] type = "STORE" -> {"key", "value"}
      [] type = "LOOKUP" -> {"key"}
      [] OTHER -> {}

KnownTypes == {"JOIN", "STORE", "LOOKUP", "ROUTING_INFO"}

Handled(rs, ids, response, exc) == [rs |-> rs, ids |-> ids, response |-> response, exc |-> exc]

process_message(n, message) ==
    IF ~(Required(message.type) \subseteq message.fields)
    THEN Handled(RS(n), {}, <<>>, "KeyError")
    ELSE IF message.type = "JOIN"
    THEN LET rs == update_routing_tables(n, RS(n), message.entry)
         IN  Handled(rs, {message.entry[1]},
                     <<[status |-> "success", routing_info |-> Snapshot(n, rs)]>>, "")
    ELSE IF message.type = "ROUTING_INFO"
    THEN IF "routing_info" \in message.fields
         THEN LET es == InfoEntries(message.routing_info)
              IN  Handled(handle_routing_info(n, RS(n), message.routing_info),
                          {es[j][1] : j \in 1..Len(es)},
                          <<Response("success", "", <<>>)>>, "")
         ELSE Handled(RS(n), {}, <<Response("success", "", <<>>)>>, "")
    ELSE Handled(RS(n), {}, <<Response("error", "Unknown message type", <<>>)>>, "")

(***************************************************************************)
(* _handle_client on node n (lines 64-86): read the request; decode it and *)
(* pass it to process_message; write the response if there is one.  An     *)
(* exception raised on the way (recv, json.loads, the handler, sendall) is *)
(* caught and printed.  The socket is closed in the finally clause.        *)
(***************************************************************************)
handle_client(n) ==
    /\ conn.wpc = "recv" /\ conn.to = n
    /\ conn.request # <<>>
    /\ \E wfault \in {"none", "read", "write"} :
          LET data == conn.request[1]
              handled == IF wfault = "read" THEN Handled(RS(n), {}, <<>>, "ConnectionResetError")
                         ELSE IF ~data.json THEN Handled(RS(n), {}, <<>>, "JSONDecodeError")
                         ELSE process_message(n, data.body)
              written == handled.response # <<>> /\ wfault # "write"
          IN  /\ SetRS(n, handled.rs, handled.ids)
              /\ conn' = [conn EXCEPT !.wpc = "done", !.accepted = close(@).state,
                                      !.wfault = wfault,
                                      !.reply = IF written THEN <<Encode(handled.response[1])>>
                                                ELSE <<>>]
    /\ UNCHANGED <<nodes, storage, net, call, prev, nops, server_thread, workers, base, modified>>

(* The worker of a connection on which no request arrives: recv returns    *)
(* no data once the sender's socket is closed, and the worker closes.      *)
handle_client_eof(n) ==
    /\ conn.wpc = "recv" /\ conn.to = n
    /\ conn.request = <<>> /\ conn.client_socket = "closed"
    /\ conn' = [conn EXCEPT !.wpc = "done", !.accepted = close(@).state]
    /\ UNCHANGED <<nodes, storage, routing, net, call, prev, nops, server_thread, workers, base, modified>>

(***************************************************************************)
(* One connection between two nodes: a running node a sends one request to *)
(* the address of b, which runs or was never started.                      *)
(***************************************************************************)
Requests(a) ==
    {Message("JOIN", fields, Entry(a), Snapshot(a, EmptyState)) :
        fields \in {{"node_id", "ip", "port"}, {"node_id", "ip"}, {}}}
    \cup {Message("STORE", fields, Entry(a), Snapshot(a, EmptyState)) : fields \in {{"key"}, {"value"}}}
    \cup {Message("LOOKUP", {}, Entry(a), Snapshot(a, EmptyState))}
    \cup {Message("ROUTING_INFO", {"routing_info"}, Entry(a), PeerSnapshot(a, p)) : p \in Ids}
    \cup {Message("PING", {}, Entry(a), Snapshot(a, EmptyState))}

ConnInit == \E a \in Ids, b \in Ids : a # b /\ (Fresh({a}) \/ Fresh({a, b}))

ConnNext ==
    \/ \E a \in Ids, b \in Ids : \E message \in Requests(a) : send_message(a, b, message)
    \/ ConnectFailed
    \/ sendall
    \/ recv
    \/ \E n \in Ids : handle_client(n)
    \/ \E n \in Ids : handle_client_eof(n)

ConnSpec == ConnInit /\ [][ConnNext]_vars

(***************************************************************************)
(* Worker threads.  _listen_for_connections starts one thread per          *)
(* connection and the threads share the node's lists without a lock, so    *)
(* the statements of update_routing_tables run by two workers interleave.  *)
(* A worker is its JOIN's entry, its position, the locals of a running     *)
(* sort and the reply it has serialized:                                   *)
(*   saved, saved_modified  the items list.sort took out of the list and   *)
(*                          the list's state before the sort               *)
(*   detached, hit          the attribute was assigned a new list while    *)
(*                          the sort ran, and whether the old list had     *)
(*                          been changed by then                           *)
(***************************************************************************)
MaxWorkers == 2

Worker(n, e) ==
    [node |-> n, peer |-> e, pc |-> IF e[1] = n THEN "reply" ELSE "append",
     saved |-> <<>>, saved_modified |-> TRUE, detached |-> FALSE, hit |-> FALSE,
     reply |-> <<>>]

Side(w) == IF workers[w].peer[1] < workers[w].node THEN "smaller" ELSE "larger"

Leaf(w) ==
    IF Side(w) = "smaller" THEN leaf_set_smaller[workers[w].node]
    ELSE leaf_set_larger[workers[w].node]

(* The leaf set of worker w's side becomes items.                          *)
SetLeaf(w, items) ==
    IF Side(w) = "smaller"
    THEN /\ leaf_set_smaller' = [leaf_set_smaller EXCEPT ![workers[w].node] = items]
         /\ UNCHANGED leaf_set_larger
    ELSE /\ leaf_set_larger' = [leaf_set_larger EXCEPT ![workers[w].node] = items]
         /\ UNCHANGED leaf_set_smaller

At(w, pc) == w \in DOMAIN workers /\ workers[w].pc = pc

rest == <<nodes, storage, net, call, prev, nops, server_thread, conn, base>>

(* A JOIN from p is accepted by node n and a worker is started for it.     *)
StartWorker(n, p) ==
    /\ Len(workers) < MaxWorkers
    /\ \A w \in DOMAIN workers : workers[w].node = n
    /\ Accept(n)
    /\ workers' = Append(workers, Worker(n, Entry(p)))
    /\ inserted' = [inserted EXCEPT ![n] = @ \cup ({p} \ {n})]
    /\ UNCHANGED <<nodes, storage, net, call, prev, nops, conn, base, modified,
                   leaf_set_smaller, leaf_set_larger, routing_table>>

(* self.leaf_set_X.append(...) (lines 96, 102).                            *)
leaf_append(w) ==
    /\ At(w, "append")
    /\ SetLeaf(w, Append(Leaf(w), workers[w].peer))
    /\ modified' = [modified EXCEPT ![Side(w)] = TRUE]
    /\ workers' = [workers EXCEPT ![w].pc = "sort"]
    /\ UNCHANGED <<rest, routing_table, inserted>>

(***************************************************************************)
(* self.leaf_set_X.sort(key=...) (lines 97, 103) begins: the items are     *)
(* taken out of the list, which is empty while the key function runs.  An  *)
(* empty list has no key to compute and is sorted in one step.             *)
(***************************************************************************)
leaf_sort_begin(w) ==
    /\ At(w, "sort")
    /\ IF Leaf(w) = <<>>
       THEN /\ workers' = [workers EXCEPT ![w].pc = "len"]
            /\ UNCHANGED <<leaf_set_smaller, leaf_set_larger, modified>>
       ELSE /\ workers' = [workers EXCEPT ![w].pc = "sorting",
                                          ![w].saved = SortById(Leaf(w), Side(w) = "smaller"),
                                          ![w].saved_modified = modified[Side(w)],
                                          ![w].detached = FALSE, ![w].hit = FALSE]
            /\ SetLeaf(w, <<>>)
            /\ modified' = [modified EXCEPT ![Side(w)] = FALSE]
    /\ UNCHANGED <<rest, routing_table, inserted>>

(***************************************************************************)
(* The sort ends: the sorted items are put back into the list it was       *)
(* called on, whatever the list holds by now, and ValueError is raised if  *)
(* the list was changed meanwhile.  The exception leaves                   *)
(* update_routing_tables and handle_join and is caught in _handle_client   *)
(* (line 83): the worker ends without a reply.                             *)
(***************************************************************************)
leaf_sort_end(w) ==
    /\ At(w, "sorting")
    /\ IF workers[w].detached
       THEN /\ workers' = [workers EXCEPT ![w].pc = IF workers[w].hit THEN "failed" ELSE "len"]
            /\ UNCHANGED <<leaf_set_smaller, leaf_set_larger, modified>>
       ELSE /\ workers' = [workers EXCEPT ![w].pc = IF modified[Side(w)] THEN "failed" ELSE "len"]
            /\ SetLeaf(w, workers[w].saved)
            /\ modified' = [modified EXCEPT ![Side(w)] = workers[w].saved_modified]
    /\ UNCHANGED <<rest, routing_table, inserted>>

(* if len(self.leaf_set_X) > LEAF_SET_SIZE (lines 98, 104).                *)
leaf_len(w) ==
    /\ At(w, "len")
    /\ workers' = [workers EXCEPT ![w].pc = IF Len(Leaf(w)) > LEAF_SET_SIZE THEN "truncate"
                                            ELSE "table"]
    /\ UNCHANGED <<rest, routing, modified>>

(***************************************************************************)
(* self.leaf_set_X = self.leaf_set_X[:LEAF_SET_SIZE] (lines 99, 105): the  *)
(* attribute is given a new list; a sort that runs on the old list no      *)
(* longer reaches the attribute.                                           *)
(***************************************************************************)
leaf_truncate(w) ==
    /\ At(w, "truncate")
    /\ SetLeaf(w, SubSeq(Leaf(w), 1, Min2(Len(Leaf(w)), LEAF_SET_SIZE)))
    /\ modified' = [modified EXCEPT ![Side(w)] = TRUE]
    /\ workers' = [v \in DOMAIN workers |->
                     IF v = w THEN [workers[v] EXCEPT !.pc = "table"]
                     ELSE IF workers[v].pc = "sorting" /\ Side(v) = Side(w) /\ ~workers[v].detached
                          THEN [workers[v] EXCEPT !.detached = TRUE, !.hit = modified[Side(w)]]
                          ELSE workers[v]]
    /\ UNCHANGED <<rest, routing_table, inserted>>

(* The routing-table part of update_routing_tables (lines 109-121).        *)
table_update(w) ==
    /\ At(w, "table")
    /\ routing_table' = [routing_table EXCEPT ![workers[w].node] =
                            TableInsert(workers[w].node, @, workers[w].peer)]
    /\ workers' = [workers EXCEPT ![w].pc = "reply"]
    /\ UNCHANGED <<rest, leaf_set_smaller, leaf_set_larger, inserted, modified>>

(***************************************************************************)
(* handle_join returns the response, which refers to the node's lists      *)
(* (lines 309-318), and _handle_client serializes it (line 82): the reply  *)
(* holds what the lists hold at that moment.                               *)
(***************************************************************************)
join_reply(w) ==
    /\ At(w, "reply")
    /\ workers' = [workers EXCEPT ![w].pc = "done",
                                  ![w].reply = <<Snapshot(workers[w].node, RS(workers[w].node))>>]
    /\ UNCHANGED <<rest, routing, modified>>

(***************************************************************************)
(* One running node that has been told of the nodes of a ring one after    *)
(* the other, in the order of their ids, and the JOINs it then serves at   *)
(* the same time.                                                          *)
(***************************************************************************)
ThreadInit ==
    \E n \in Ids : \E ring \in SUBSET (Ids \ {n}) : \E ord \in Orders(ring) :
        /\ Cardinality(ring) <= MaxNodes
        /\ \A i, j \in DOMAIN ord : i < j => ord[i] < ord[j]
        /\ running = [m \in Ids |-> m = n]
        /\ bootstrap_node = [m \in Ids |-> <<>>]
        /\ storage = [m \in Ids |-> <<>>]
        /\ leaf_set_smaller = [m \in Ids |-> IF m = n THEN ToldAll(n, ord).smaller ELSE <<>>]
        /\ leaf_set_larger = [m \in Ids |-> IF m = n THEN ToldAll(n, ord).larger ELSE <<>>]
        /\ routing_table = [m \in Ids |-> IF m = n THEN ToldAll(n, ord).table ELSE EmptyTable]
        /\ net = {}
        /\ call = NoCall
        /\ prev = NoCall
        /\ nops = 0
        /\ inserted = [m \in Ids |-> IF m = n THEN ring ELSE {}]
        /\ server_socket = [m \in Ids |-> IF m = n THEN "open" ELSE "none"]
        /\ server_thread = [m \in Ids |-> IF m = n THEN "accept" ELSE "none"]
        /\ escaped = {}
        /\ conn = NoConn
        /\ workers = NoWorkers
        /\ base = ToldAll(n, ord)
        /\ modified = Unsorted

ThreadNext ==
    \/ \E n \in Ids, p \in Ids : StartWorker(n, p)
    \/ \E w \in 1..MaxWorkers : leaf_append(w)
    \/ \E w \in 1..MaxWorkers : leaf_sort_begin(w)
    \/ \E w \in 1..MaxWorkers : leaf_sort_end(w)
    \/ \E w \in 1..MaxWorkers : leaf_len(w)
    \/ \E w \in 1..MaxWorkers : leaf_truncate(w)
    \/ \E w \in 1..MaxWorkers : table_update(w)
    \/ \E w \in 1..MaxWorkers : join_reply(w)

ThreadSpec == ThreadInit /\ [][ThreadNext]_vars

(***************************************************************************)
(* The API called while a JOIN is served.  store and lookup run on the     *)
(* caller's thread and read the lists that a worker's                       *)
(* update_routing_tables changes, without a lock: is_responsible_for_key   *)
(* (lines 257, 285) and route_to_node (lines 268, 294) are two calls, and  *)
(* the worker runs between them.  Each of the two is taken as one read of  *)
(* the lists; call.state is "routing" between them.                        *)
(***************************************************************************)
Routing(c) == [c EXCEPT !.state = "routing"]

(* The caller makes its one call on node n, the node the workers belong to. *)
CanCallBeside(n) ==
    /\ running[n]
    /\ call.state = "idle"
    /\ nops < MaxOps
    /\ \A w \in DOMAIN workers : workers[w].node = n

(* store up to the test of line 257.                                       *)
store_is_responsible(n, key_hash, value) ==
    /\ CanCallBeside(n)
    /\ IF is_responsible_for_key(n, RS(n), key_hash)
       THEN /\ storage' = [storage EXCEPT ![n] = Put(@, key_hash, value)]
            /\ call' = Done(Begin("store", n, key_hash, value),
                            Response("success", "Key stored successfully", <<>>))
       ELSE /\ call' = Routing(Begin("store", n, key_hash, value))
            /\ UNCHANGED storage
    /\ prev' = call
    /\ nops' = nops + 1
    /\ UNCHANGED <<nodes, routing, net, server_thread, threads>>

(***************************************************************************)
(* store from line 268: the request is handed to send_message for the next *)
(* node (whose answer is not followed here), or stored locally as a        *)
(* fallback when route_to_node returned None.                              *)
(***************************************************************************)
store_route_to_node(n) ==
    /\ call.state = "routing" /\ call.op = "store" /\ call.path = <<n>>
    /\ LET next_node == route_to_node(n, RS(n), call.key)
       IN  IF next_node # None
           THEN /\ call' = Forward(call, next_node)
                /\ UNCHANGED storage
           ELSE /\ storage' = [storage EXCEPT ![n] = Put(@, call.key, call.value)]
                /\ call' = Done(call, Response("success", "Key stored locally (fallback)", <<>>))
    /\ UNCHANGED <<nodes, routing, net, prev, nops, server_thread, threads>>

(* lookup up to the test of line 285.                                      *)
lookup_is_responsible(n, key_hash) ==
    /\ CanCallBeside(n)
    /\ IF Has(storage[n], key_hash)
       THEN call' = Done(Begin("lookup", n, key_hash, 0),
                         Response("success", "", <<storage[n][key_hash]>>))
       ELSE IF is_responsible_for_key(n, RS(n), key_hash)
       THEN call' = Done(Begin("lookup", n, key_hash, 0), Response("error", "Key not found", <<>>))
       ELSE call' = Routing(Begin("lookup", n, key_hash, 0))
    /\ prev' = call
    /\ nops' = nops + 1
    /\ UNCHANGED <<nodes, storage, routing, net, server_thread, threads>>

(* lookup from line 294.                                                   *)
lookup_route_to_node(n) ==
    /\ call.state = "routing" /\ call.op = "lookup" /\ call.path = <<n>>
    /\ LET next_node == route_to_node(n, RS(n), call.key)
       IN  IF next_node # None
           THEN call' = Forward(call, next_node)
           ELSE call' = Done(call, Response("error", "No route to key", <<>>))
    /\ UNCHANGED <<nodes, storage, routing, net, prev, nops, server_thread, threads>>

(* One JOIN is served beside the caller.                                   *)
StartOneWorker(n, p) == workers = NoWorkers /\ StartWorker(n, p)

(***************************************************************************)
(* One running node that has been told of the nodes of a ring in the order *)
(* of their ids; a ring of MaxNodes + 1 nodes can fill a leaf set, so that *)
(* the one JOIN served reaches the truncation.                             *)
(***************************************************************************)
RaceInit ==
    \E n \in Ids : \E ring \in SUBSET (Ids \ {n}) : \E ord \in Orders(ring) :
        /\ Cardinality(ring) <= MaxNodes + 1
        /\ \A i, j \in DOMAIN ord : i < j => ord[i] < ord[j]
        /\ running = [m \in Ids |-> m = n]
        /\ bootstrap_node = [m \in Ids |-> <<>>]
        /\ storage = [m \in Ids |-> <<>>]
        /\ leaf_set_smaller = [m \in Ids |-> IF m = n THEN ToldAll(n, ord).smaller ELSE <<>>]
        /\ leaf_set_larger = [m \in Ids |-> IF m = n THEN ToldAll(n, ord).larger ELSE <<>>]
        /\ routing_table = [m \in Ids |-> IF m = n THEN ToldAll(n, ord).table ELSE EmptyTable]
        /\ net = {}
        /\ call = NoCall
        /\ prev = NoCall
        /\ nops = 0
        /\ inserted = [m \in Ids |-> IF m = n THEN ring ELSE {}]
        /\ server_socket = [m \in Ids |-> IF m = n THEN "open" ELSE "none"]
        /\ server_thread = [m \in Ids |-> IF m = n THEN "accept" ELSE "none"]
        /\ escaped = {}
        /\ conn = NoConn
        /\ workers = NoWorkers
        /\ base = ToldAll(n, ord)
        /\ modified = Unsorted

RaceNext ==
    \/ \E n \in Ids, p \in Ids : StartOneWorker(n, p)
    \/ \E w \in 1..MaxWorkers : leaf_append(w)
    \/ \E w \in 1..MaxWorkers : leaf_sort_begin(w)
    \/ \E w \in 1..MaxWorkers : leaf_sort_end(w)
    \/ \E w \in 1..MaxWorkers : leaf_len(w)
    \/ \E w \in 1..MaxWorkers : leaf_truncate(w)
    \/ \E w \in 1..MaxWorkers : table_update(w)
    \/ \E w \in 1..MaxWorkers : join_reply(w)
    \/ \E n \in Ids, key_hash \in KeyHashes, value \in Values : store_is_responsible(n, key_hash, value)
    \/ \E n \in Ids : store_route_to_node(n)
    \/ \E n \in Ids, key_hash \in KeyHashes : lookup_is_responsible(n, key_hash)
    \/ \E n \in Ids : lookup_route_to_node(n)

RaceSpec == RaceInit /\ [][RaceNext]_vars

(***************************************************************************)
(* The id-space vocabulary of the specification (section 4.1): digit i of  *)
(* an id in base 2^DigitBits, most significant first, and the number of    *)
(* leading digits on which two ids agree.                                  *)
(***************************************************************************)
NumDigits == ID_BITS \div DigitBits

Digit(id, i) == (id \div 2^(ID_BITS - DigitBits * (i + 1))) % 2^DigitBits

RECURSIVE PrefixFrom(_, _, _)
PrefixFrom(a, b, i) ==
    IF i >= NumDigits \/ Digit(a, i) # Digit(b, i) THEN i ELSE PrefixFrom(a, b, i + 1)

shared_prefix_len(a, b) == PrefixFrom(a, b, 0)

IdsOf(s) == {s[j][1] : j \in 1..Len(s)}

(***************************************************************************)
(* C5: whenever route_to_node(key) returns a peer p, p shares strictly     *)
(* more leading digits with the key than the local id does, or as many and *)
(* is numerically closer to the key than the local id.                     *)
(***************************************************************************)
MonotoneProgress ==
    \A n \in Live, k \in KeyHashes :
        LET p == route_to_node(n, RS(n), k)
        IN  p # None =>
              \/ shared_prefix_len(p[1], k) > shared_prefix_len(n, k)
              \/ /\ shared_prefix_len(p[1], k) = shared_prefix_len(n, k)
                 /\ Abs(p[1] - k) < Abs(n - k)

(***************************************************************************)
(* C7: leaf_set_smaller is strictly decreasing in id and leaf_set_larger   *)
(* strictly increasing, so no id appears twice in a leaf set.              *)
(***************************************************************************)
LeafSetsStrictlySorted ==
    \A n \in Live :
        /\ \A j \in 1..(Len(leaf_set_smaller[n]) - 1) :
              leaf_set_smaller[n][j][1] > leaf_set_smaller[n][j + 1][1]
        /\ \A j \in 1..(Len(leaf_set_larger[n]) - 1) :
              leaf_set_larger[n][j][1] < leaf_set_larger[n][j + 1][1]

(***************************************************************************)
(* C8: each leaf set holds at most LEAF_SET_SIZE entries, and no peer that *)
(* was passed to update_routing_tables and is not (or no longer) in the    *)
(* leaf set of its side is strictly closer to the local id than a peer     *)
(* that set retains.                                                       *)
(***************************************************************************)
LeafSetsBoundedNearest ==
    \A n \in Live :
        /\ Len(leaf_set_smaller[n]) <= LEAF_SET_SIZE
        /\ Len(leaf_set_larger[n]) <= LEAF_SET_SIZE
        /\ \A p \in inserted[n] :
              /\ (p < n /\ p \notin IdsOf(leaf_set_smaller[n])) =>
                    \A q \in IdsOf(leaf_set_smaller[n]) : ~(n - p < n - q)
              /\ (p > n /\ p \notin IdsOf(leaf_set_larger[n])) =>
                    \A q \in IdsOf(leaf_set_larger[n]) : ~(p - n < q - n)

(* A leaf set is full and a peer has been dropped from it by truncation.   *)
PeerDropped ==
    \E n \in Live : \E p \in inserted[n] :
        \/ p < n /\ p \notin IdsOf(leaf_set_smaller[n]) /\ Len(leaf_set_smaller[n]) = LEAF_SET_SIZE
        \/ p > n /\ p \notin IdsOf(leaf_set_larger[n]) /\ Len(leaf_set_larger[n]) = LEAF_SET_SIZE

(***************************************************************************)
(* C9: every non-empty routing-table cell R[i][d] holds an id that agrees  *)
(* with the local id on exactly its first i digits and whose digit i is d, *)
(* d being different from the local id's digit i.                          *)
(***************************************************************************)
CellPrefixDiscipline ==
    \A n \in Live :
        \A i \in 0..(ROUTING_TABLE_ROWS - 1), d \in 0..(ROUTING_TABLE_COLS - 1) :
            routing_table[n][i][d] # None =>
                /\ shared_prefix_len(n, routing_table[n][i][d][1]) = i
                /\ Digit(routing_table[n][i][d][1], i) = d
                /\ Digit(n, i) # d

(***************************************************************************)
(* C10: from any routing state and for any peer p, calling                 *)
(* update_routing_tables(p) twice leaves the leaf sets and the routing     *)
(* table exactly as one call does.                                         *)
(***************************************************************************)
InsertIdempotent ==
    \A n \in Live, p \in Ids :
        update_routing_tables(n, update_routing_tables(n, RS(n), Entry(p)), Entry(p))
            = update_routing_tables(n, RS(n), Entry(p))

(***************************************************************************)
(* A converged, quiescent ring: no join is in flight and the leaf sets of  *)
(* every running node hold its nearest running neighbours on each side,    *)
(* nearest first.                                                          *)
(***************************************************************************)
RECURSIVE Nearest(_, _, _)
Nearest(S, desc, k) ==
    IF S = {} \/ k = 0 THEN <<>>
    ELSE LET x == CHOOSE y \in S : \A z \in S : IF desc THEN z <= y ELSE y <= z
         IN  <<Entry(x)>> \o Nearest(S \ {x}, desc, k - 1)

Converged ==
    /\ net = {}
    /\ \A n \in Live :
          /\ leaf_set_smaller[n] = Nearest({m \in Live : m < n}, TRUE, LEAF_SET_SIZE)
          /\ leaf_set_larger[n] = Nearest({m \in Live : m > n}, FALSE, LEAF_SET_SIZE)

(* The call just completed is a lookup of the key that the call completed  *)
(* before it stored.                                                       *)
LookupAfterStore ==
    /\ call.op = "lookup" /\ call.state = "done"
    /\ prev.op = "store" /\ prev.state = "done"
    /\ prev.key = call.key

(***************************************************************************)
(* C1: in a converged ring, store(k, v) issued at any node X followed by   *)
(* lookup(k) issued at any node Y returns status 'success' with value v.   *)
(***************************************************************************)
StoreThenLookup ==
    (Converged /\ LookupAfterStore) =>
        /\ call.resp.status = "success"
        /\ call.resp.value = <<prev.value>>

(***************************************************************************)
(* C2: in a converged ring, for every key id exactly one node's            *)
(* is_responsible_for_key(key) returns true.                               *)
(***************************************************************************)
ExactlyOneRoot ==
    Converged =>
        \A k \in KeyHashes :
            Cardinality({n \in Live : is_responsible_for_key(n, RS(n), k)}) = 1

(***************************************************************************)
(* C3: in a ring built only by the join protocol, with all joins           *)
(* completed, a value stored with store(k, v) at any node is returned by a *)
(* later lookup(k) issued at any other node.                               *)
(***************************************************************************)
JoinedStoreThenLookup ==
    (net = {} /\ LookupAfterStore /\ call.path[1] # prev.path[1]) =>
        /\ call.resp.status = "success"
        /\ call.resp.value = <<prev.value>>

(***************************************************************************)
(* C4: on a node whose two leaf sets are empty, store(k, v) writes to the  *)
(* local storage and returns 'success' without sending a message (the      *)
(* chain of the call is the node alone), and a following lookup(k) returns *)
(* 'success' with the value stored last for k.                             *)
(***************************************************************************)
SingletonStoreLookup ==
    \A n \in Live :
        (/\ leaf_set_smaller[n] = <<>> /\ leaf_set_larger[n] = <<>>
         /\ call.state = "done" /\ call.path[1] = n) =>
            /\ call.path = <<n>>
            /\ call.op = "store" =>
                  /\ call.resp.status = "success"
                  /\ Has(storage[n], call.key)
                  /\ storage[n][call.key] = call.value
            /\ (call.op = "lookup" /\ prev.op = "store" /\ prev.path = <<n>>
                    /\ prev.key = call.key) =>
                  /\ call.resp.status = "success"
                  /\ call.resp.value = <<prev.value>>

(* A lookup on a node with empty leaf sets has returned the value that the *)
(* store before it put under the same key.                                 *)
SingletonLookupServed ==
    \E n \in Live :
        /\ leaf_set_smaller[n] = <<>> /\ leaf_set_larger[n] = <<>>
        /\ call.op = "lookup" /\ call.state = "done" /\ call.path = <<n>>
        /\ prev.op = "store" /\ prev.state = "done" /\ prev.path = <<n>>
        /\ prev.key = call.key
        /\ call.resp = Response("success", "", <<prev.value>>)

(***************************************************************************)
(* C6: in a quiescent ring the chain of forwards of one store or lookup    *)
(* never visits the same node twice.                                       *)
(***************************************************************************)
NoNodeVisitedTwice ==
    Converged =>
        \A i, j \in 1..Len(call.path) : call.path[i] = call.path[j] => i = j

(* The ids a node knows: those of its leaf sets and routing-table cells.   *)
PeerIds(rs) == IdsOf(rs.smaller) \cup IdsOf(rs.larger) \cup IdsOf(TableCells(rs.table, 0))

(***************************************************************************)
(* C11: merging a snapshot only grows the receiver's peer set: every id    *)
(* that is in the receiver's leaf sets or routing-table cells before       *)
(* handle_routing_info(snapshot) is in one of them after it.               *)
(***************************************************************************)
MergeOnlyGrows ==
    \A n \in Live, m \in Ids, p \in Ids :
        \A info \in {PeerSnapshot(m, p)} :
            PeerIds(RS(n)) \subseteq PeerIds(handle_routing_info(n, RS(n), info))

(***************************************************************************)
(* C12: a store never returns an error: whatever the state of the nodes,   *)
(* the next hop being unreachable included, a store that has returned      *)
(* returned status 'success' and its value is held in some node's storage. *)
(***************************************************************************)
StoreNeverErrors ==
    (call.op = "store" /\ call.state = "done") =>
        /\ call.resp.status = "success"
        /\ \E n \in Ids : Has(storage[n], call.key) /\ storage[n][call.key] = call.value

(***************************************************************************)
(* C13: at every reachable state of the ring and for every key hash, at    *)
(* most one node's storage has an entry for the key.                       *)
(***************************************************************************)
AtMostOneHome ==
    \A k \in KeyHashes : Cardinality({n \in Ids : Has(storage[n], k)}) <= 1

(***************************************************************************)
(* C14: send_message always returns a response to its caller: no exception *)
(* leaves it, and after a connect, write, read or decode failure, or when  *)
(* the peer closed without replying, the response has status 'error'.      *)
(***************************************************************************)
SendMessageReturns ==
    /\ conn.spc # "raised"
    /\ \A x \in escaped : x[2] # "send_message"
    /\ (conn.spc = "returned" /\ conn.fault # "none") => conn.result.status = "error"

(* send_message has returned the error response of a reply that could not *)
(* be decoded.                                                             *)
DecodeFailureReturned ==
    /\ conn.spc = "returned" /\ conn.fault = "decode"
    /\ conn.result = Response("error", "JSONDecodeError", <<>>)

(***************************************************************************)
(* C15: shutdown is idempotent: a shutdown() of a node that was shut down  *)
(* before raises nothing and leaves the whole state (the running flag,     *)
(* the listening socket, the storage, the routing state) as it was.        *)
(***************************************************************************)
ShutdownIdempotent ==
    [][\A n \in Ids :
          (~running[n] /\ server_socket[n] = "closed" /\ shutdown(n)) => UNCHANGED vars]_vars

(* A node that holds a value has been shut down.                           *)
ShutDownWithData ==
    \E n \in Ids : ~running[n] /\ server_socket[n] = "closed" /\ storage[n] # <<>>

(* The entries of s are in the order of the leaf set: ids descending if    *)
(* desc, else ascending (equal ids may follow each other).                 *)
InOrder(s, desc) ==
    \A j \in 1..(Len(s) - 1) : IF desc THEN s[j][1] >= s[j + 1][1] ELSE s[j][1] <= s[j + 1][1]

(***************************************************************************)
(* C16: no handle_join snapshot taken while another worker runs            *)
(* update_routing_tables on the node sees an intermediate leaf set: the    *)
(* leaf sets of every serialized reply are sorted and hold at most         *)
(* LEAF_SET_SIZE entries.                                                  *)
(***************************************************************************)
ObservedLeafSetsConsistent ==
    \A w \in DOMAIN workers :
        workers[w].pc = "done" =>
            LET info == workers[w].reply[1]
            IN  /\ InOrder(info.leaf_set_smaller, TRUE)
                /\ InOrder(info.leaf_set_larger, FALSE)
                /\ Len(info.leaf_set_smaller) <= LEAF_SET_SIZE
                /\ Len(info.leaf_set_larger) <= LEAF_SET_SIZE

(* The workers have ended, by a reply or by an exception.                  *)
AllEnded ==
    /\ Len(workers) = MaxWorkers
    /\ \A w \in DOMAIN workers : workers[w].pc \in {"done", "failed"}

(* The routing state of the workers' node after their inserts ran one      *)
(* after the other in the order ord of the workers.                        *)
Serial(ord) ==
    MergeEntries(workers[1].node, base, [j \in 1..Len(ord) |-> workers[ord[j]].peer])

(***************************************************************************)
(* C17: concurrent inserts serialize: once the workers that ran            *)
(* update_routing_tables for different peers on one node have ended, the   *)
(* leaf sets and the routing table are those of the inserts run one after  *)
(* the other in some order.                                                *)
(***************************************************************************)
ConcurrentInsertsSerialize ==
    (/\ AllEnded
     /\ \A v, w \in DOMAIN workers : v # w => workers[v].peer # workers[w].peer) =>
        \E ord \in Orders(DOMAIN workers) : RS(workers[1].node) = Serial(ord)

(***************************************************************************)
(* C18: a handler failure does not end in a missing reply: for a decoded   *)
(* request of a known type that lacks a key its handler needs, the worker  *)
(* writes one response frame with status 'error' before it closes the      *)
(* connection.                                                             *)
(***************************************************************************)
HandlerFailureReplied ==
    (/\ conn.wpc = "done" /\ conn.wfault = "none"
     /\ conn.request # <<>> /\ conn.request[1].json
     /\ conn.msg.type \in KnownTypes
     /\ ~(Required(conn.msg.type) \subseteq conn.msg.fields)) =>
        /\ Len(conn.reply) = 1
        /\ conn.reply[1].body.status = "error"

(***************************************************************************)
(* C19: every socket is closed on every exit path: once _handle_client has *)
(* ended its accepted socket is closed, and once send_message has          *)
(* returned, after a failure or not, the socket it opened is closed.       *)
(***************************************************************************)
SocketsClosedOnExit ==
    /\ conn.wpc = "done" => conn.accepted = "closed"
    /\ conn.spc \in {"returned", "raised"} => conn.client_socket = "closed"

(* Every started node has completed its join: no JOIN or reply is in       *)
(* flight.  (A ring of at most MaxNodes <= LEAF_SET_SIZE + 1 nodes has at  *)
(* most LEAF_SET_SIZE other nodes on each side of any node.)               *)
AllJoined == net = {} /\ Cardinality(Live) <= LEAF_SET_SIZE + 1

(***************************************************************************)
(* C20: once every node of a ring has completed join_network through a     *)
(* common bootstrap, every node's leaf sets together contain every other   *)
(* node of the ring: a joiner knows the bootstrap, and the bootstrap and   *)
(* the earlier joiners know the later joiners.                             *)
(***************************************************************************)
JoinedKnowEachOther ==
    AllJoined =>
        \A n \in Live :
            Live \ {n} \subseteq IdsOf(leaf_set_smaller[n]) \cup IdsOf(leaf_set_larger[n])

(***************************************************************************)
(* C21.  A node that does not hold itself responsible for a key has a peer *)
(* to route it to: in every state and for every key, if                    *)
(* is_responsible_for_key is false then route_to_node returns an entry,    *)
(* and one of another node; and so no store ends in the branch 'Key stored *)
(* locally (fallback)' and no lookup in the branch 'No route to key'.      *)
(***************************************************************************)
FallbackUnreachable ==
    /\ \A n \in Live : \A key_hash \in KeyHashes :
           ~is_responsible_for_key(n, RS(n), key_hash)
               => /\ route_to_node(n, RS(n), key_hash) # None
                  /\ route_to_node(n, RS(n), key_hash)[1] # n
    /\ call.resp.message \notin {"Key stored locally (fallback)", "No route to key"}

====
